---- MODULE Spec2Model ----
(***************************************************************************)
(* Model of the MyTaxNigeria tax engine (lib/taxCalculations) and of the   *)
(* TaxCalculator form that drives it (components/TaxCalculator.tsx).       *)
(*                                                                         *)
(* Numbers.  The code computes on IEEE doubles.  The model computes on     *)
(* exact decimal fixed point: a number is a record [w, f] standing for     *)
(* w + f / 10^5 naira, w an integer (floor), f in 0 .. 10^5 - 1.  Inputs   *)
(* carry at most three decimals, rates are whole percents, so every        *)
(* product the code forms is exact in this representation.  Binary         *)
(* representation error of the doubles is not modelled.                    *)
(***************************************************************************)
EXTENDS Integers, Sequences, FiniteSets, TLC

VARIABLES taxType, formData, pitResult, citResult, error, invoked, calls

vars == <<taxType, formData, pitResult, citResult, error, invoked, calls>>

uiVars == <<taxType, formData, pitResult, citResult, error, invoked>>

-----------------------------------------------------------------------------
(* Decimal arithmetic *)

Scale == 10 ^ 5

Cent == Scale \div 100

Milli == Scale \div 1000

Nm(w, f) == [w |-> w, f |-> f]

Naira(n) == Nm(n, 0)

Zero == Naira(0)

\* JavaScript's Infinity (the last bracket's max) and NaN (parseFloat's failure)
Infinity == [inf |-> TRUE]

NaN == [nan |-> TRUE]

\* Carry the fraction into the whole part
Norm(w, f) == Nm(w + (f \div Scale), f % Scale)

Add(a, b) ==
    IF a = Infinity \/ b = Infinity THEN Infinity
    ELSE Norm(a.w + b.w, a.f + b.f)

Sub(a, b) ==
    IF a = Infinity THEN Infinity
    ELSE Norm(a.w - b.w, a.f - b.f)

Leq(a, b) ==
    IF b = Infinity THEN TRUE
    ELSE IF a = Infinity THEN FALSE
    ELSE a.w < b.w \/ (a.w = b.w /\ a.f <= b.f)

Lt(a, b) == ~Leq(b, a)

\* Math.min, Math.max
Min(a, b) == IF Leq(a, b) THEN a ELSE b

Max(a, b) == IF Leq(a, b) THEN b ELSE a

\* a * k for an integer k
MulInt(a, k) == Norm(a.w * k, a.f * k)

\* a * rate, the rate given in whole percents (0.07 is 7)
MulRate(a, pct) ==
    LET wr == a.w * pct
    IN  Norm(wr \div 100, (wr % 100) * (Scale \div 100) + ((a.f * pct) \div 100))

\* Math.round(a * 100) / 100: to the cent, halves toward plus infinity
Round2(a) == Norm(a.w, ((a.f + (Cent \div 2)) \div Cent) * Cent)

\* at most two decimal digits
HasTwoDecimals(a) == a.f % Cent = 0

-----------------------------------------------------------------------------
(* Exact quotient for the effective rate: naturals as little-endian limbs *)

Base == 10 ^ 4

\* the number of 10^-5 naira units of a >= 0, as limbs
BigOfNum(a) ==
    LET W == a.w * 10 + (a.f \div Base)
    IN  << a.f % Base, W % Base, (W \div Base) % Base, W \div (Base * Base), 0, 0 >>

RECURSIVE BigMulFrom(_, _, _, _)
BigMulFrom(b, k, i, carry) ==
    IF i > Len(b) THEN << >>
    ELSE LET p == b[i] * k + carry
         IN  << p % Base >> \o BigMulFrom(b, k, i + 1, p \div Base)

BigMulSmall(b, k) == BigMulFrom(b, k, 1, 0)

RECURSIVE BigAddFrom(_, _, _, _)
BigAddFrom(a, b, i, carry) ==
    IF i > Len(a) THEN << >>
    ELSE LET s == a[i] + b[i] + carry
         IN  << s % Base >> \o BigAddFrom(a, b, i + 1, s \div Base)

BigAdd(a, b) == BigAddFrom(a, b, 1, 0)

RECURSIVE BigLeqFrom(_, _, _)
BigLeqFrom(a, b, i) ==
    IF i = 0 THEN TRUE
    ELSE IF a[i] # b[i] THEN a[i] < b[i]
    ELSE BigLeqFrom(a, b, i - 1)

BigLeq(a, b) == BigLeqFrom(a, b, Len(a))

\* floor(A / B), one decimal digit at a time, for quotients below 10^5
RECURSIVE BigDivDigits(_, _, _, _)
BigDivDigits(A, B, acc, place) ==
    IF place = 0 THEN acc
    ELSE LET fits(d) == BigLeq(BigMulSmall(B, acc + d * place), A)
             d == CHOOSE e \in 0 .. 9 : fits(e) /\ (e = 9 \/ ~fits(e + 1))
         IN  BigDivDigits(A, B, acc + d * place, place \div 10)

\* Math.round((t / base) * 100 * 100) / 100 for t >= 0, base > 0
RoundedPercent(t, base) ==
    LET A == BigAdd(BigMulSmall(BigOfNum(t), 20000), BigOfNum(base))
        B == BigMulSmall(BigOfNum(base), 2)
        q == BigDivDigits(A, B, 0, Base)
    IN  Nm(q \div 100, (q % 100) * Cent)

-----------------------------------------------------------------------------
(* lib/taxCalculations *)

\* rates in whole percents
PIT_BRACKETS ==
    << [min |-> Naira(0),       max |-> Naira(300000),  rate |-> 7],
       [min |-> Naira(300001),  max |-> Naira(600000),  rate |-> 11],
       [min |-> Naira(600001),  max |-> Naira(1100000), rate |-> 15],
       [min |-> Naira(1100001), max |-> Naira(1600000), rate |-> 19],
       [min |-> Naira(1600001), max |-> Naira(3200000), rate |-> 21],
       [min |-> Naira(3200001), max |-> Naira(3900000), rate |-> 24],
       [min |-> Naira(3900001), max |-> Naira(6000000), rate |-> 27],
       [min |-> Naira(6000001), max |-> Infinity,     rate |-> 30] >>

CIT_THRESHOLD == 25000000

CIT_RATE_LOWER == 20

CIT_RATE_HIGHER == 30

\* first pass of calculateMonthlyPIT: one bracket of the loop
FirstPassStep(monthlyIncome, bracket, st) ==
    LET bracketSize == Add(Sub(bracket.max, bracket.min), Naira(1))
        taxableInBracket == Min(st.remainingIncome, bracketSize)
    IN  IF bracket.min = Naira(0)
        THEN LET actualTaxable == Min(monthlyIncome, bracket.max)
             IN  [tax |-> Add(st.tax, MulRate(actualTaxable, bracket.rate)),
                  remainingIncome |-> Sub(st.remainingIncome, actualTaxable)]
        ELSE IF Lt(Sub(bracket.min, Naira(1)), monthlyIncome)
        THEN LET incomeInThisBracket ==
                     Min(Add(Sub(monthlyIncome, bracket.min), Naira(1)),
                         Add(Sub(bracket.max, bracket.min), Naira(1)))
             IN  [tax |-> IF Lt(Zero, incomeInThisBracket)
                          THEN Add(st.tax, MulRate(incomeInThisBracket, bracket.rate))
                          ELSE st.tax,
                  remainingIncome |-> Sub(st.remainingIncome, taxableInBracket)]
        ELSE st

RECURSIVE FirstPass(_, _, _)
FirstPass(monthlyIncome, i, st) ==
    IF i > Len(PIT_BRACKETS) \/ Leq(st.remainingIncome, Zero) THEN st
    ELSE FirstPass(monthlyIncome, i + 1,
                   FirstPassStep(monthlyIncome, PIT_BRACKETS[i], st))

\* const lowerBound = bracket.min === 0 ? 0 : bracket.min
LowerBound_fromZero(bracket) == Naira(0)

LowerBound(bracket) == IF bracket.min = Naira(0) THEN Naira(0) ELSE bracket.min

\* tax += taxableAmount * bracket.rate
Accumulate_assign(tax, taxableAmount, rate) == MulRate(taxableAmount, rate)

Accumulate(tax, taxableAmount, rate) == Add(tax, MulRate(taxableAmount, rate))

\* second pass of calculateMonthlyPIT: the loop from bracket i on
RECURSIVE SecondPass(_, _, _)
SecondPass(monthlyIncome, i, tax) ==
    IF i > Len(PIT_BRACKETS) THEN tax
    ELSE LET bracket == PIT_BRACKETS[i]
         IN  IF Leq(monthlyIncome, bracket.min) THEN tax
             ELSE LET lowerBound == LowerBound(bracket)
                      upperBound == Min(monthlyIncome, bracket.max)
                      taxableAmount == Max(Zero, Sub(upperBound, lowerBound))
                  IN  SecondPass(monthlyIncome, i + 1,
                                 Accumulate(tax, taxableAmount, bracket.rate))

calculateMonthlyPIT_noReset(monthlyIncome) ==
    IF Leq(monthlyIncome, Zero) THEN Zero
    ELSE LET first == FirstPass(monthlyIncome, 1,
                                [tax |-> Zero, remainingIncome |-> monthlyIncome])
         IN  Round2(SecondPass(monthlyIncome, 1, first.tax))

\* tax = 0 between the two passes; remainingIncome is not read again
ResetTax_keep(st) == st

ResetTax(st) == [st EXCEPT !.tax = Zero]

calculateMonthlyPIT(monthlyIncome) ==
    IF Leq(monthlyIncome, Zero) THEN Zero
    ELSE LET first == FirstPass(monthlyIncome, 1,
                                [tax |-> Zero, remainingIncome |-> monthlyIncome])
             st == ResetTax(first)
         IN  Round2(SecondPass(monthlyIncome, 1, st.tax))

\* Math.max(0, monthlyIncome - allowancesOrExpenses)
TaxableIncome_noClamp(monthlyIncome, allowancesOrExpenses) ==
    Sub(monthlyIncome, allowancesOrExpenses)

TaxableIncome(monthlyIncome, allowancesOrExpenses) ==
    Max(Zero, Sub(monthlyIncome, allowancesOrExpenses))

calculatePIT(monthlyIncome, allowancesOrExpenses) ==
    LET taxableIncome == TaxableIncome(monthlyIncome, allowancesOrExpenses)
        monthlyTax == calculateMonthlyPIT(taxableIncome)
        annualTax == MulInt(monthlyTax, 12)
        netIncome == Sub(taxableIncome, monthlyTax)
    IN  [taxableIncome |-> taxableIncome,
         monthlyTax |-> monthlyTax,
         annualTax |-> annualTax,
         netIncome |-> netIncome,
         effectiveRate |-> IF Lt(Zero, taxableIncome)
                           THEN RoundedPercent(monthlyTax, taxableIncome)
                           ELSE Zero]

\* the two-tier tax on a profit, before rounding
CitTax_higherOnAll(profit) ==
    IF Leq(profit, Naira(CIT_THRESHOLD)) THEN MulRate(profit, CIT_RATE_LOWER)
    ELSE MulRate(profit, CIT_RATE_HIGHER)

CitTax(profit) ==
    IF Leq(profit, Naira(CIT_THRESHOLD)) THEN MulRate(profit, CIT_RATE_LOWER)
    ELSE Add(MulRate(Naira(CIT_THRESHOLD), CIT_RATE_LOWER),
             MulRate(Sub(profit, Naira(CIT_THRESHOLD)), CIT_RATE_HIGHER))

calculateCIT(annualRevenue, annualExpenses) ==
    LET profit == Max(Zero, Sub(annualRevenue, annualExpenses))
        annualTax == CitTax(profit)
        netProfit == Sub(profit, annualTax)
    IN  [profit |-> profit,
         annualTax |-> Round2(annualTax),
         netProfit |-> Round2(netProfit),
         effectiveRate |-> IF Lt(Zero, profit)
                           THEN RoundedPercent(annualTax, profit)
                           ELSE Zero]

-----------------------------------------------------------------------------
(* Form texts: a text is a sequence of one-character strings *)

DigitChars == << "0", "1", "2", "3", "4", "5", "6", "7", "8", "9" >>

IsDigit(c) == \E n \in 1 .. 10 : DigitChars[n] = c

DigitVal(c) == (CHOOSE n \in 1 .. 10 : DigitChars[n] = c) - 1

\* the first position from i on that holds no digit
RECURSIVE DigitRunEnd(_, _)
DigitRunEnd(s, i) ==
    IF i <= Len(s) /\ IsDigit(s[i]) THEN DigitRunEnd(s, i + 1) ELSE i

\* /^\d*\.?\d*$/.test(value)
MatchesNumberPattern(s) ==
    LET j == DigitRunEnd(s, 1)
        k == IF j <= Len(s) /\ s[j] = "." THEN j + 1 ELSE j
    IN  DigitRunEnd(s, k) = Len(s) + 1

\* the value of the digits s[i .. j - 1] as a whole number
RECURSIVE WholeValue(_, _, _, _)
WholeValue(s, i, j, acc) ==
    IF i >= j THEN acc ELSE WholeValue(s, i + 1, j, acc * 10 + DigitVal(s[i]))

\* the value of the fraction digits s[i .. j - 1] in 10^-5 units; place is the
\* weight of s[i].  Digits past the fifth decimal are below the model's unit.
RECURSIVE FractionValue(_, _, _, _)
FractionValue(s, i, j, place) ==
    IF i >= j \/ place = 0 THEN 0
    ELSE DigitVal(s[i]) * place + FractionValue(s, i + 1, j, place \div 10)

\* parseFloat: the longest prefix that is a decimal literal, NaN when there is
\* none.  Texts hold no white space, exponent or "Infinity".
parseFloat(s) ==
    LET signed == Len(s) >= 1 /\ s[1] \in {"-", "+"}
        i0 == IF signed THEN 2 ELSE 1
        j == DigitRunEnd(s, i0)
        hasDot == j <= Len(s) /\ s[j] = "."
        m == IF hasDot THEN DigitRunEnd(s, j + 1) ELSE j
        fracDigits == IF hasDot THEN m - (j + 1) ELSE 0
        magnitude == Nm(WholeValue(s, i0, j, 0),
                        IF hasDot THEN FractionValue(s, j + 1, m, Scale \div 10) ELSE 0)
    IN  IF j - i0 = 0 /\ fracDigits = 0 THEN NaN
        ELSE IF signed /\ s[1] = "-" THEN Sub(Zero, magnitude)
        ELSE magnitude

\* parseFloat(text) || 0
ParseOrZero(s) ==
    LET v == parseFloat(s) IN IF v = NaN \/ v = Zero THEN Zero ELSE v

-----------------------------------------------------------------------------
(* components/TaxCalculator.tsx *)

Null == [null |-> TRUE]

TaxTypes == {"employee", "self-employed", "cac-business"}

EmptyText == << >>

\* what the user can type or paste into a field
InputTexts ==
    { EmptyText,
      << "." >>,
      << "0" >>,
      << "5", "." >>,
      << ".", "5" >>,
      << "3", "0", "0", "0", "0", "1" >>,
      << "2", "5", "0", "0", "0", "0", "0", "0", ".", "0", "5" >>,
      << "-", "5" >>,
      << "1", "2", "a" >>,
      << "1", ".", "2", ".", "3" >> }

\* if (income <= 0)
IncomeRejected_negativeOnly(income) == Lt(income, Zero)

IncomeRejected(income) == Leq(income, Zero)

handleTypeChange_keepResults(value) ==
    /\ taxType' = value
    /\ formData' = [income |-> EmptyText, deductions |-> EmptyText]
    /\ error' = ""
    /\ invoked' = {}
    /\ UNCHANGED <<pitResult, citResult, calls>>

handleTypeChange(value) ==
    /\ taxType' = value
    /\ formData' = [income |-> EmptyText, deductions |-> EmptyText]
    /\ pitResult' = Null
    /\ citResult' = Null
    /\ error' = ""
    /\ invoked' = {}
    /\ UNCHANGED calls

handleInputChange(field, value) ==
    /\ IF value = EmptyText \/ MatchesNumberPattern(value)
       THEN /\ formData' = [formData EXCEPT ![field] = value]
            /\ error' = ""
       ELSE UNCHANGED <<formData, error>>
    /\ invoked' = {}
    /\ UNCHANGED <<taxType, pitResult, citResult, calls>>

handleCalculate ==
    LET income == ParseOrZero(formData.income)
        deductions == ParseOrZero(formData.deductions)
    IN  /\ IF IncomeRejected(income)
           THEN /\ error' = "Please enter a valid income amount"
                /\ invoked' = {}
                /\ UNCHANGED <<pitResult, citResult>>
           ELSE IF Lt(deductions, Zero)
           THEN /\ error' = "Deductions cannot be negative"
                /\ invoked' = {}
                /\ UNCHANGED <<pitResult, citResult>>
           ELSE IF taxType = "cac-business"
           THEN /\ citResult' = calculateCIT(income, deductions)
                /\ pitResult' = Null
                /\ invoked' = {"calculateCIT"}
                /\ error' = ""
           ELSE /\ pitResult' = calculatePIT(income, deductions)
                /\ citResult' = Null
                /\ invoked' = {"calculatePIT"}
                /\ error' = ""
        /\ UNCHANGED <<taxType, formData, calls>>

-----------------------------------------------------------------------------
(* Direct calls of the exported functions; calls records each call made *)

MaxCalls == 2

BracketEdges == { PIT_BRACKETS[i].max : i \in 1 .. Len(PIT_BRACKETS) - 1 }

Half == Nm(0, Scale \div 2)

MonthlyInputs ==
    { Naira(-5), Nm(-1, Scale \div 2), Zero, Nm(0, 5 * Milli), Nm(0, 72 * Milli),
      Naira(1), Naira(150000), Naira(7000000) }
    \cup { Add(e, d) : e \in BracketEdges, d \in { Zero, Half, Naira(1), Add(Naira(1), Half) } }

PitIncomes ==
    { Naira(-100), Zero, Nm(100, 5 * Milli), Naira(50000), Naira(300001), Naira(450000),
      Nm(1234567, 89 * Cent), Naira(7000000) }

PitAllowances ==
    { Naira(-200), Zero, Nm(0, 5 * Milli), Naira(50000), Naira(500000) }

CitRevenues ==
    { Naira(-5), Zero, Nm(100, 5 * Milli), Naira(1000000), Nm(24999999, 99 * Cent),
      Naira(CIT_THRESHOLD), Nm(CIT_THRESHOLD, 5 * Cent), Naira(30000000),
      Nm(30000000, Scale \div 2) }

CitExpenses == { Zero, Nm(0, 5 * Cent), Naira(5000000), Naira(40000000) }

CallCalculateMonthlyPIT(x) ==
    /\ Cardinality(calls) < MaxCalls
    /\ calls' = calls \cup { [fn |-> "calculateMonthlyPIT", args |-> << x >>,
                              ret |-> [tax |-> calculateMonthlyPIT(x)]] }
    /\ UNCHANGED uiVars

CallCalculatePIT(monthlyIncome, allowancesOrExpenses) ==
    /\ Cardinality(calls) < MaxCalls
    /\ calls' = calls \cup { [fn |-> "calculatePIT",
                              args |-> << monthlyIncome, allowancesOrExpenses >>,
                              ret |-> calculatePIT(monthlyIncome, allowancesOrExpenses)] }
    /\ UNCHANGED uiVars

CallCalculateCIT(annualRevenue, annualExpenses) ==
    /\ Cardinality(calls) < MaxCalls
    /\ calls' = calls \cup { [fn |-> "calculateCIT",
                              args |-> << annualRevenue, annualExpenses >>,
                              ret |-> calculateCIT(annualRevenue, annualExpenses)] }
    /\ UNCHANGED uiVars

-----------------------------------------------------------------------------
(* Specifications *)

Init ==
    /\ taxType = "employee"
    /\ formData = [income |-> EmptyText, deductions |-> EmptyText]
    /\ pitResult = Null
    /\ citResult = Null
    /\ error = ""
    /\ invoked = {}
    /\ calls = {}

\* the form
Next ==
    \/ \E value \in TaxTypes : handleTypeChange(value)
    \/ \E field \in {"income", "deductions"}, value \in InputTexts :
           handleInputChange(field, value)
    \/ handleCalculate

Spec == Init /\ [][Next]_vars

\* calculateMonthlyPIT called directly
NextMonthlyPIT == \E x \in MonthlyInputs : CallCalculateMonthlyPIT(x)

SpecMonthlyPIT == Init /\ [][NextMonthlyPIT]_vars

\* calculatePIT and calculateMonthlyPIT called directly
NextPIT ==
    \/ \E x \in MonthlyInputs : CallCalculateMonthlyPIT(x)
    \/ \E i \in PitIncomes, a \in PitAllowances : CallCalculatePIT(i, a)

SpecPIT == Init /\ [][NextPIT]_vars

\* calculatePIT and calculateCIT called directly
NextCalc ==
    \/ \E i \in PitIncomes, a \in PitAllowances : CallCalculatePIT(i, a)
    \/ \E r \in CitRevenues, e \in CitExpenses : CallCalculateCIT(r, e)

SpecCalc == Init /\ [][NextCalc]_vars

-----------------------------------------------------------------------------
(* Properties *)

MonthlyCalls == { c \in calls : c.fn = "calculateMonthlyPIT" }

PitCalls == { c \in calls : c.fn = "calculatePIT" }

CitCalls == { c \in calls : c.fn = "calculateCIT" }

\* the tax when every naira is taxed at the rate of the bracket it falls into:
\* bracket i covers the income above the previous bracket's max, up to its max
RECURSIVE StandardMarginalFrom(_, _, _)
StandardMarginalFrom(x, i, prevMax) ==
    IF i > Len(PIT_BRACKETS) THEN Zero
    ELSE LET b == PIT_BRACKETS[i]
             portion == Max(Zero, Sub(Min(x, b.max), prevMax))
         IN  Add(MulRate(portion, b.rate), StandardMarginalFrom(x, i + 1, b.max))

\* C1: for every monthlyIncome > 0, calculateMonthlyPIT returns the standard
\* marginal-bracket tax over the eight brackets, rounded to 2 decimals, no
\* naira of the income left untaxed.
C1_StandardMarginal ==
    \A c \in MonthlyCalls :
        Lt(Zero, c.args[1]) =>
            c.ret.tax = Round2(StandardMarginalFrom(c.args[1], 1, Zero))

\* C2: calculateCIT's profit is max(0, revenue - expenses), never negative, and
\* its annualTax is 20% of the profit up to 25,000,000 and 5,000,000 plus 30% of
\* the excess above, rounded to 2 decimals; calculateCIT(25000000, 0).annualTax
\* is 5,000,000 and calculateCIT(30000000, 0).annualTax is 6,500,000.
C2_CitTwoTier ==
    \A c \in CitCalls :
        LET d == Sub(c.args[1], c.args[2])
            profit == IF Lt(d, Zero) THEN Zero ELSE d
            excess == Sub(profit, Naira(25000000))
            tax == IF Lt(Zero, excess)
                   THEN Add(Naira(5000000), MulRate(excess, 30))
                   ELSE MulRate(profit, 20)
        IN  /\ c.ret.profit = profit
            /\ Leq(Zero, c.ret.profit)
            /\ c.ret.annualTax = Round2(tax)
            /\ c.args = << Naira(25000000), Zero >> => c.ret.annualTax = Naira(5000000)
            /\ c.args = << Naira(30000000), Zero >> => c.ret.annualTax = Naira(6500000)

C2_Witness ==
    /\ \E c \in CitCalls :
           c.args = << Naira(25000000), Zero >> /\ c.ret.annualTax = Naira(5000000)
    /\ \E c \in CitCalls :
           c.args = << Naira(30000000), Zero >> /\ c.ret.annualTax = Naira(6500000)

\* rate, a percentage with two decimals, is tax / base * 100 rounded to the
\* nearest hundredth (halves up): 2q * base <= 20000 * tax + base < (2q + 2) * base
IsRoundedPercent(rate, tax, base) ==
    LET q == rate.w * 100 + (rate.f \div Cent)
        lhs == BigAdd(BigMulSmall(BigOfNum(tax), 20000), BigOfNum(base))
    IN  /\ HasTwoDecimals(rate)
        /\ q >= 0
        /\ BigLeq(BigMulSmall(BigOfNum(base), 2 * q), lhs)
        /\ ~BigLeq(BigMulSmall(BigOfNum(base), 2 * q + 2), lhs)

\* C3: calculatePIT returns, for every pair of inputs, taxableIncome =
\* max(0, monthlyIncome - allowancesOrExpenses), monthlyTax the monthly PIT of
\* it, annualTax = monthlyTax x 12, netIncome = taxableIncome - monthlyTax and
\* effectiveRate = monthlyTax / taxableIncome x 100 rounded to 2 decimals (0 when
\* taxableIncome is 0); when monthlyIncome - allowancesOrExpenses <= 0 every
\* field is 0, and calculateMonthlyPIT(x) is 0 for every x <= 0.
C3_PitRecord ==
    /\ \A c \in PitCalls :
           LET d == Sub(c.args[1], c.args[2])
               r == c.ret
           IN  /\ r.taxableIncome = (IF Lt(d, Zero) THEN Zero ELSE d)
               /\ \A m \in MonthlyCalls :
                      m.args[1] = r.taxableIncome => r.monthlyTax = m.ret.tax
               /\ r.annualTax = MulInt(r.monthlyTax, 12)
               /\ Add(r.netIncome, r.monthlyTax) = r.taxableIncome
               /\ IF Lt(Zero, r.taxableIncome)
                  THEN IsRoundedPercent(r.effectiveRate, r.monthlyTax, r.taxableIncome)
                  ELSE r.effectiveRate = Zero
               /\ Leq(d, Zero) =>
                      /\ r.taxableIncome = Zero
                      /\ r.monthlyTax = Zero
                      /\ r.annualTax = Zero
                      /\ r.netIncome = Zero
                      /\ r.effectiveRate = Zero
    /\ \A m \in MonthlyCalls : Leq(m.args[1], Zero) => m.ret.tax = Zero

C3_Witness ==
    /\ \E c \in PitCalls :
           /\ Lt(c.args[1], Zero)
           /\ c.ret.netIncome = Zero
    /\ \E c \in PitCalls :
           /\ Lt(Zero, c.ret.monthlyTax)
           /\ Lt(Zero, c.ret.effectiveRate)

\* C4: every monetary field returned by calculatePIT (taxableIncome, monthlyTax,
\* annualTax, netIncome) and by calculateCIT (profit, annualTax, netProfit) has
\* at most 2 decimal digits, whatever decimals the inputs carry.
C4_TwoDecimals ==
    /\ \A c \in PitCalls :
           /\ HasTwoDecimals(c.ret.taxableIncome)
           /\ HasTwoDecimals(c.ret.monthlyTax)
           /\ HasTwoDecimals(c.ret.annualTax)
           /\ HasTwoDecimals(c.ret.netIncome)
    /\ \A c \in CitCalls :
           /\ HasTwoDecimals(c.ret.profit)
           /\ HasTwoDecimals(c.ret.annualTax)
           /\ HasTwoDecimals(c.ret.netProfit)

\* C5: in every record returned by calculateCIT the returned fields satisfy
\* netProfit = profit - annualTax exactly, for every revenue and expenses; stated
\* here over the revenues and expenses given to the cent, where the profit
\* itself carries no further decimals.
C5_NetProfitIdentity ==
    \A c \in CitCalls :
        HasTwoDecimals(c.args[1]) /\ HasTwoDecimals(c.args[2]) =>
            c.ret.netProfit = Sub(c.ret.profit, c.ret.annualTax)

\* C6: calculateMonthlyPIT is monotone non-decreasing: x1 < x2 and x2 >= 0
\* imply calculateMonthlyPIT(x1) <= calculateMonthlyPIT(x2).
C6_Monotone ==
    \A c1 \in MonthlyCalls, c2 \in MonthlyCalls :
        Lt(c1.args[1], c2.args[1]) /\ Leq(Zero, c2.args[1]) =>
            Leq(c1.ret.tax, c2.ret.tax)

C6_Witness ==
    \E c1 \in MonthlyCalls, c2 \in MonthlyCalls :
        /\ c1.args[1] = Naira(300000)
        /\ c2.args[1] = Add(Naira(300001), Half)
        /\ Lt(c1.ret.tax, c2.ret.tax)

\* C7: calculateMonthlyPIT(300000) is 300000 x 0.07 = 21000 exactly, and
\* calculateMonthlyPIT(300001) is 21000 + 0.01 x 0.11 rounded to 2 decimals.
C7_BoundaryExact ==
    \A c \in MonthlyCalls :
        /\ c.args[1] = Naira(300000) =>
               c.ret.tax = MulRate(Naira(300000), 7) /\ c.ret.tax = Naira(21000)
        /\ c.args[1] = Naira(300001) =>
               c.ret.tax = Round2(Add(Naira(21000), MulRate(Nm(0, Cent), 11)))

C7_Witness ==
    /\ \E c \in MonthlyCalls : c.args[1] = Naira(300000) /\ c.ret.tax = Naira(21000)
    /\ \E c \in MonthlyCalls : c.args[1] = Naira(300001)

\* C8: at each of the seven bracket edges, the tax at an income eps above the
\* upper bound of bracket N (and still inside bracket N+1) exceeds the tax at
\* that upper bound by no more than (rate of bracket N+1) x eps plus the cent
\* the two roundings can add.
C8_ContinuousAtEdges ==
    \A i \in 1 .. Len(PIT_BRACKETS) - 1 :
        \A c1 \in MonthlyCalls, c2 \in MonthlyCalls :
            ( /\ c1.args[1] = PIT_BRACKETS[i].max
              /\ Lt(c1.args[1], c2.args[1])
              /\ Leq(c2.args[1], PIT_BRACKETS[i + 1].max) ) =>
                Leq(Sub(c2.ret.tax, c1.ret.tax),
                    Add(MulRate(Sub(c2.args[1], c1.args[1]), PIT_BRACKETS[i + 1].rate),
                        Nm(0, Cent)))

C8_Witness ==
    \E i \in 1 .. Len(PIT_BRACKETS) - 1 :
        \E c1 \in MonthlyCalls, c2 \in MonthlyCalls :
            /\ c1.args[1] = PIT_BRACKETS[i].max
            /\ c2.args[1] = Add(PIT_BRACKETS[i].max, Add(Naira(1), Half))
            /\ Lt(c1.ret.tax, c2.ret.tax)

\* C9: in the form the displayed result always matches the selected category:
\* pitResult and citResult are never both set, citResult is set only under
\* cac-business and pitResult only under employee or self-employed, and a
\* calculate invokes calculateCIT only for cac-business, calculatePIT otherwise.
C9_ResultMatchesCategory ==
    /\ ~(pitResult # Null /\ citResult # Null)
    /\ citResult # Null => taxType = "cac-business"
    /\ pitResult # Null => taxType \in {"employee", "self-employed"}
    /\ "calculateCIT" \in invoked => taxType = "cac-business" /\ citResult # Null
    /\ "calculatePIT" \in invoked => taxType # "cac-business" /\ pitResult # Null

C9_Witness ==
    /\ taxType = "cac-business"
    /\ citResult # Null
    /\ pitResult = Null
    /\ invoked = {"calculateCIT"}

\* C10: a handleCalculate whose income parses to a value <= 0 (empty or
\* unparseable text counting as 0) or whose deductions are negative sets a
\* non-empty error, calls neither calculatePIT nor calculateCIT and leaves
\* pitResult and citResult as they were; every other handleCalculate ends with
\* the error empty and exactly one result set.
C10_CalculateStep ==
    LET income == parseFloat(formData.income)
        deductions == parseFloat(formData.deductions)
        badIncome == income = NaN \/ Leq(income, Zero)
        badDeductions == deductions # NaN /\ Lt(deductions, Zero)
    IN  handleCalculate =>
            IF badIncome \/ badDeductions
            THEN /\ error' # ""
                 /\ invoked' = {}
                 /\ pitResult' = pitResult
                 /\ citResult' = citResult
            ELSE /\ error' = ""
                 /\ (pitResult' # Null) # (citResult' # Null)

C10_Validation == [][C10_CalculateStep]_vars

C10_Witness ==
    /\ error = "Please enter a valid income amount"
    /\ pitResult # Null
    /\ formData.income \in { EmptyText, << "." >>, << "0" >> }

\* C11: the first bracket loop of calculateMonthlyPIT is dead: for every
\* monthlyIncome the value returned is the one the second loop alone (tax
\* starting at 0, the second accumulation, the rounding) produces, whatever the
\* first loop left in tax and remainingIncome.
C11_FirstPassDead ==
    \A c \in MonthlyCalls :
        c.ret.tax = Round2(SecondPass(c.args[1], 1, Zero))

\* a call where the first loop had computed another tax than the one returned
C11_Witness ==
    \E c \in MonthlyCalls :
        LET first == FirstPass(c.args[1], 1,
                               [tax |-> Zero, remainingIncome |-> c.args[1]])
        IN  /\ c.args[1] = Add(Naira(600000), Half)
            /\ first.tax = Add(Naira(54000), MulRate(Half, 15))
            /\ c.ret.tax # Round2(first.tax)
            /\ c.ret.tax = Round2(Add(Naira(21000), MulRate(Naira(299999), 11)))

====
